---- MODULE Spec2Model ----
(***************************************************************************)
(* The asynchronous job queue of src/src/server/server.js (lines 502-660): *)
(* the `jobs` Map, POST /api/jobs/start, GET /api/jobs/:id and the         *)
(* background worker runBackgroundWorkflow.                                *)
(*                                                                         *)
(* Node runs every handler and every continuation of an async function to  *)
(* its next `await` without interruption, so one action of this module is  *)
(* one such run-to-completion segment.  A stage operation that is pending  *)
(* is a job whose pc names the stage; the operation settles when the       *)
(* matching Resolved / Rejected action is taken, and an operation that     *)
(* never settles is a behaviour in which neither is taken.                 *)
(*                                                                         *)
(* Job objects live in `heap` (index = object identity); the Map `jobs`    *)
(* holds <<key, reference>> entries in insertion order, so deleting a key  *)
(* leaves the object to the worker that captured it.                       *)
(*                                                                         *)
(* JavaScript strings are sequences of non-empty tokens (<<>> is the empty *)
(* string and \o is concatenation); a nullable field holds <<>> for null   *)
(* and <<s>> for the string s.                                             *)
(*                                                                         *)
(* Date.now() is the variable `now`, in milliseconds.  Spec and SpecStore  *)
(* explore the runs that fit into one millisecond; SpecClock lets the      *)
(* clock advance.  The documents of the data directory that the publish    *)
(* stage reads are the variable `docs`; SpecPublish explores them.         *)
(*                                                                         *)
(* The collaborators and the other routes have sections of their own, each *)
(* with its specification: searchTrendsApi (SpecSearch), generateSingle-   *)
(* Image (SpecGen), createDraftListing (SpecListing), the Etsy OAuth2 PKCE *)
(* routes (SpecOAuth) and the debug log buffer (SpecLog).  A call of an    *)
(* async function is a record with a pc, and an action is one of its       *)
(* run-to-completion segments.                                             *)
(***************************************************************************)
EXTENDS Integers, Sequences, FiniteSets, TLC

VARIABLES
    jobs,       \* the Map: sequence of <<jobId, ref>> in insertion order
    heap,       \* the job objects, in allocation order
    exec,       \* per job object: where its runBackgroundWorkflow call stands
                \* (the stage it awaits; "returned" once its promise is
                \* fulfilled, "threw" if its promise is rejected)
    trace,      \* per job object: the stage operations invoked and settled
    rng,        \* number of ids drawn by generateJobId
    env,        \* process.env: which marketplace credentials are set
    startRes,   \* body of the latest POST /api/jobs/start response
    pollRes,    \* latest GET /api/jobs/:id request and its response
    now,        \* Date.now(), in milliseconds
    docs,       \* data/history.json and data/manifest.json
    pub,        \* per publish stage that loaded its images: what it selected
    client,     \* the polling client testAsyncWorkflow
    collab,     \* the collaborators' wrappers: what returned, what still runs
    search,     \* per searchTrendsApi call: its attempts and how it settled
    gen,        \* per generateSingleImage call: its attempts and what it returned
    listing,    \* per createDraftListing call: its requests and how it settled
    etsyOAuthState, \* the Map of PKCE states: sequence of <<state, entry>>
    oauth,      \* the verifiers issued and the /auth/etsy/callback requests
    logBuffer,  \* the debug log buffer
    logCalls    \* every console.log and console.error call so far, in order

\* what the job pipeline of this module leaves alone: the collaborators'
\* internals, the OAuth routes and the console
rest == <<search, gen, listing, etsyOAuthState, oauth, logBuffer, logCalls>>

\* the variables of the job pipeline and of its clients
pipeline == <<jobs, heap, exec, trace, rng, env, startRes, pollRes, now, docs,
              pub, client, collab>>

vars == <<jobs, heap, exec, trace, rng, env, startRes, pollRes, now, docs, pub,
          client, collab, search, gen, listing, etsyOAuthState, oauth,
          logBuffer, logCalls>>

----------------------------------------------------------------------------
(* Bounds of the exploration *)

\* Start requests explored by Spec
MaxStarts == 2
\* Start requests explored by SpecStore (more than the retention limit)
StoreStarts == 22
\* in SpecStore, the external operations of the first StoreResolving jobs settle
StoreResolving == 1

\* SpecClock: the clock runs from 0 to MaxTime milliseconds
MaxTime == 2
\* Start requests explored by SpecClock
ClockStarts == 2

\* Start requests explored by SpecPublish
PublishStarts == 1
\* Start requests explored by SpecFiles
FilesStarts == 2
\* SpecLog: console calls explored (more than the buffer holds), of which
\* only the first LogWindow may be console.error calls
MaxLogCalls == 204
LogWindow == 3
\* SpecSearch: searchTrendsApi calls explored (scrapeDesignTrends makes two)
SearchCalls == 2
\* SpecGen: generateSingleImage calls explored (the ideas of one batch)
GenCalls == 2
\* SpecListing: createDraftListing calls explored (the uploads of one
\* publish stage run in parallel)
ListingCalls == 2
\* SpecOAuth: /auth/etsy/start and /auth/etsy/callback requests explored
AuthStarts == 2
MaxCallbacks == 2
\* SpecOAuth: the clock makes up to AuthTicks steps of ten minutes
AuthTicks == 2
\* SpecPublish: the images of the documents have the ids 1..MaxImages
MaxImages == 3

\* server.js:642  if (jobs.size > 20)
MaxJobs == 20

\* server.js:155  const tenMinutes = 10 * 60 * 1000
tenMinutes == 10 * 60 * 1000

----------------------------------------------------------------------------
(* Values *)

Null == <<>>
Some(s) == <<s>>

\* e.message of a rejected operation: the empty string or a non-empty one
ErrMsgs == { <<>>, <<"ETIMEDOUT">> }

\* how many images the publish stage finds to upload
ImageCounts == 0..1

\* Math.random().toString(36).substr(2, 9) of the n-th call, for a generator
\* that never returns the same digits twice
Random(n) == <<"r", ToString(n)>>

\* 'job_' + Date.now() + '_' + Math.random().toString(36).substr(2, 9), with
\* Date.now() = t and r the digits drawn
generateJobId(t, r) == <<"job_", ToString(t), "_">> \o r

\* Date.prototype.toISOString and its inverse new Date(s).getTime()
toISOString(t) == <<"iso", t>>
getTime(s) == s[2]

----------------------------------------------------------------------------
(* The Map `jobs` *)

MapHas(m, k) == \E i \in 1..Len(m) : m[i][1] = k

\* Map.prototype.get: the reference stored under k, or 0 (undefined)
MapGet(m, k) ==
    IF MapHas(m, k) THEN m[CHOOSE i \in 1..Len(m) : m[i][1] = k][2] ELSE 0

\* Map.prototype.set: an existing key keeps its position, a new key goes last
MapSet(m, k, v) ==
    IF MapHas(m, k)
    THEN [i \in 1..Len(m) |-> IF m[i][1] = k THEN <<k, v>> ELSE m[i]]
    ELSE Append(m, <<k, v>>)

MapDelete(m, k) == SelectSeq(m, LAMBDA e : e[1] # k)

MapKeys(m) == { m[i][1] : i \in 1..Len(m) }

----------------------------------------------------------------------------
(* The job record *)

\* a record that starts in a state other than `running`
NewJobQueued(id) ==
    [ id          |-> id,
      status      |-> "queued",
      currentStep |-> 0,
      progress    |-> 0,
      logs        |-> <<>>,
      error       |-> Null,
      createdAt   |-> now,
      updatedAt   |-> now ]

NewJob(id) ==
    [ id          |-> id,
      status      |-> "running",
      currentStep |-> 0,
      progress    |-> 0,
      logs        |-> <<>>,
      error       |-> Null,
      createdAt   |-> now,
      updatedAt   |-> now ]

\* server.js:516-525
updateJob(job, step, msg, type) ==
    [ job EXCEPT
        !.currentStep = step,
        !.logs = Append(@, [timestamp |-> toISOString(now), message |-> msg,
                            type |-> type, step |-> step]),
        !.updatedAt = now ]

\* the completion leaves `progress` as it is
CompleteKeepsProgress(job) ==
    updateJob([job EXCEPT !.status = "completed"],
              4, <<"Workflow Completed!">>, "success")

\* server.js:606-609
Complete(job) ==
    updateJob([job EXCEPT !.status = "completed", !.progress = 100],
              4, <<"Workflow Completed!">>, "success")

\* the catch block leaves `error` as it is
FailKeepsError(job, message) ==
    [ job EXCEPT
        !.status = "failed",
        !.logs   = Append(@, [timestamp |-> toISOString(now),
                              message |-> <<"Error: ">> \o message,
                              type |-> "error"]) ]

\* the catch block replaces the logs instead of appending to them
FailResetLogs(job, message) ==
    [ job EXCEPT
        !.status = "failed",
        !.error  = Some(message),
        !.logs   = <<[timestamp |-> toISOString(now),
                      message |-> <<"Error: ">> \o message, type |-> "error"]>> ]

\* server.js:611-619, with error.message = message
Fail(job, message) ==
    [ job EXCEPT
        !.status = "failed",
        !.error  = Some(message),
        !.logs   = Append(@, [timestamp |-> toISOString(now),
                              message |-> <<"Error: ">> \o message,
                              type |-> "error"]) ]

----------------------------------------------------------------------------
(* runBackgroundWorkflow, segment by segment *)

Invoke(k)     == [ev |-> "invoke",  stage |-> k, message |-> <<>>]
Resolve(k)    == [ev |-> "resolve", stage |-> k, message |-> <<>>]
Reject(k, m)  == [ev |-> "reject",  stage |-> k, message |-> m]

\* the worker's first update left for after the response
Step1BeginDeferred(job) == job

\* server.js:528, up to the first await
Step1Begin(job) ==
    updateJob(job, 1, <<"Searching for latest Design Trends...">>, "info")

\* server.js:533
Step1Ok(job) == updateJob(job, 1, <<"Trend Search completed">>, "success")

\* the discovery failure handled like a fatal one
Step1CatchFatal(job, m) ==
    [ job EXCEPT
        !.status = "failed",
        !.error  = <<(<<"Trend search failed: ">> \o m)>>,
        !.logs   = Append(@, [timestamp |-> toISOString(now),
                              message |-> <<"Error: ">> \o m, type |-> "error"]) ]

\* the fallback reported by the warning alone
Step1CatchWarningOnly(job, m) ==
    updateJob(job, 1, <<"Trend API issue - Using fallback trends">>, "warning")

\* server.js:534-538; e.message goes to the console only
Step1Catch(job, m) ==
    updateJob(
        updateJob(job, 1, <<"Trend API issue - Using fallback trends">>, "warning"),
        1, <<"Trend Search completed (Fallback)">>, "success")

\* server.js:541
Step2Begin(job) ==
    updateJob(job, 2, <<"Analyzing trends to generate ideas...">>, "info")

\* server.js:546
Step2Ok(job) == updateJob(job, 2, <<"Ideas generated">>, "success")

\* the synthesis failure handled like a recoverable one
Step2CatchSwallowed(job, m) ==
    updateJob(job, 2, <<"Analysis failed: ">> \o m, "warning")

\* server.js:547-549 and the outer catch
Step2Catch(job, m) == Fail(job, <<"Analysis failed: ">> \o m)

\* server.js:552
Step3Begin(job) == updateJob(job, 3, <<"Generating AI Images...">>, "info")

\* server.js:557
Step3Ok(job) == updateJob(job, 3, <<"Image generation completed">>, "success")

\* server.js:558-560 and the outer catch
Step3Catch(job, m) == Fail(job, <<"Generation failed: ">> \o m)

\* the access token alone enables the publish stage
EtsyConfiguredTokenOnly(e) == e.ETSY_ACCESS_TOKEN

\* server.js:563
EtsyConfigured(e) == e.ETSY_ACCESS_TOKEN /\ e.ETSY_SHOP_ID

\* the status is set before the publish stage instead of after it
Step4BeginCompleted(job) ==
    updateJob([job EXCEPT !.status = "completed", !.progress = 100],
              4, <<"Uploading designs to Etsy as draft listings...">>, "info")

\* server.js:564
Step4Begin(job) ==
    updateJob(job, 4, <<"Uploading designs to Etsy as draft listings...">>, "info")

\* server.js:595-598, with `uploaded` fulfilled tasks
Step4Ok(job, uploaded) ==
    updateJob(job, 4,
              <<"Uploaded ", ToString(uploaded), " draft listing(s) to Etsy">>,
              "success")

\* server.js:599-601
Step4Catch(job, m) ==
    updateJob(job, 4, <<"Etsy upload skipped: ">> \o m, "warning")

\* server.js:602-604
Step4Skip(job) ==
    updateJob(job, 4, <<"Etsy upload skipped (ETSY_ACCESS_TOKEN not set)">>, "info")

----------------------------------------------------------------------------
(* POST /api/jobs/start *)

\* no eviction at all
CleanupNever(m) == m

\* the eviction removes the newest key instead of the oldest
CleanupNewest(m) == IF Len(m) > MaxJobs THEN MapDelete(m, m[Len(m)][1]) ELSE m

\* server.js:641-645
Cleanup(m) == IF Len(m) > MaxJobs THEN MapDelete(m, m[1][1]) ELSE m

\* server.js:647
StartBody(id) ==
    [success |-> TRUE, jobId |-> id, message |-> "Workflow started in background"]

\* the handler awaits the worker's discovery stage before it responds
StartAwaited(limit) ==
    /\ Len(heap) < limit
    /\ LET id == generateJobId(now, Random(rng + 1))
       IN  /\ rng' = rng + 1
           /\ heap' = Append(heap, Step2Begin(Step1Ok(Step1Begin(NewJob(id)))))
           /\ exec' = Append(exec, [pc |-> "analysis", uploads |-> 0])
           /\ trace' = Append(trace, <<Invoke(1), Resolve(1), Invoke(2)>>)
           /\ jobs' = Cleanup(MapSet(jobs, id, Len(heap) + 1))
           /\ startRes' = <<StartBody(id)>>
    /\ UNCHANGED <<env, pollRes>>

\* The handler: insert, run the worker to its first await, clean up, respond.
\* r is what Math.random() contributes to the id.
\* the worker dispatched before the record is inserted
StartJobDispatchFirst(limit, r) ==
    /\ Len(heap) < limit
    /\ LET id       == generateJobId(now, r)
           ref      == Len(heap) + 1
           inserted == MapSet(jobs, id, ref)
           found    == MapGet(jobs, id)
           created  == Append(heap, NewJob(id))
       IN  /\ rng' = rng + 1
           /\ heap' = IF found = 0 THEN created
                      ELSE [created EXCEPT ![found] = Step1Begin(@)]
           /\ exec' = Append(exec,
                        [pc |-> IF found = 0 THEN "returned" ELSE "discovery",
                         uploads |-> 0])
           /\ trace' = Append(trace, IF found = 0 THEN <<>> ELSE <<Invoke(1)>>)
           /\ jobs' = Cleanup(inserted)
           /\ startRes' = <<StartBody(id)>>
    /\ UNCHANGED <<env, pollRes>>

StartJob(limit, r) ==
    /\ Len(heap) < limit
    /\ LET id       == generateJobId(now, r)
           ref      == Len(heap) + 1
           inserted == MapSet(jobs, id, ref)
           found    == MapGet(inserted, id)
           created  == Append(heap, NewJob(id))
       IN  /\ rng' = rng + 1
           /\ heap' = IF found = 0 THEN created
                      ELSE [created EXCEPT ![found] = Step1Begin(@)]
           /\ exec' = Append(exec,
                        [pc |-> IF found = 0 THEN "returned" ELSE "discovery",
                         uploads |-> 0])
           /\ trace' = Append(trace, IF found = 0 THEN <<>> ELSE <<Invoke(1)>>)
           /\ jobs' = Cleanup(inserted)
           /\ startRes' = <<StartBody(id)>>
    /\ UNCHANGED <<env, pollRes>>

\* a Start whose random digits were not drawn before
Start(limit) == StartJob(limit, Random(rng + 1))

----------------------------------------------------------------------------
(* The continuations of runBackgroundWorkflow *)

\* the worker looks its job up in the store each time it resumes
AtInStore(w, pc) ==
    w \in 1..Len(exec) /\ exec[w].pc = pc /\ MapHas(jobs, heap[w].id)

At(w, pc) == w \in 1..Len(exec) /\ exec[w].pc = pc

\* the worker writes to the job started last instead of to its own
ContinueLatest(w, job, pc, events) ==
    /\ heap' = [heap EXCEPT ![Len(heap)] = job]
    /\ exec' = [exec EXCEPT ![w].pc = pc]
    /\ trace' = [trace EXCEPT ![w] = @ \o events]
    /\ UNCHANGED <<jobs, rng, env, startRes, pollRes>>

\* server.js:510-525: `job` is the object captured at line 511
Continue(w, job, pc, events) ==
    /\ heap' = [heap EXCEPT ![w] = job]
    /\ exec' = [exec EXCEPT ![w].pc = pc]
    /\ trace' = [trace EXCEPT ![w] = @ \o events]
    /\ UNCHANGED <<jobs, rng, env, startRes, pollRes>>

DiscoveryResolved(w) ==
    /\ At(w, "discovery")
    /\ Continue(w, Step2Begin(Step1Ok(heap[w])), "analysis",
                <<Resolve(1), Invoke(2)>>)

\* after a discovery failure the worker goes on with the generation stage
DiscoveryRejectedSkips(w, m) ==
    /\ At(w, "discovery")
    /\ Continue(w, Step3Begin(Step1Catch(heap[w], m)), "generation",
                <<Reject(1, <<>>), Invoke(3)>>)

\* no catch around the discovery stage, and none around the worker
DiscoveryRejectedUnhandled(w, m) ==
    /\ At(w, "discovery")
    /\ Continue(w, heap[w], "threw", <<Reject(1, <<>>)>>)

DiscoveryRejected(w, m) ==
    /\ At(w, "discovery")
    /\ Continue(w, Step2Begin(Step1Catch(heap[w], m)), "analysis",
                <<Reject(1, <<>>), Invoke(2)>>)

AnalysisResolved(w) ==
    /\ At(w, "analysis")
    /\ Continue(w, Step3Begin(Step2Ok(heap[w])), "generation",
                <<Resolve(2), Invoke(3)>>)

\* no catch around the synthesis stage: the rejection leaves the worker
AnalysisRejectedEscapes(w, m) ==
    /\ At(w, "analysis")
    /\ Continue(w, heap[w], "threw", <<Reject(2, m)>>)

AnalysisRejected(w, m) ==
    /\ At(w, "analysis")
    /\ Continue(w, Step2Catch(heap[w], m), "returned", <<Reject(2, m)>>)

\* server.js:557, 562-609: with credentials the worker suspends on the import
\* of the uploader, without them it runs to its end.
GenerationResolved(w) ==
    /\ At(w, "generation")
    /\ IF EtsyConfigured(env)
       THEN Continue(w, Step4Begin(Step3Ok(heap[w])), "publish",
                     <<Resolve(3), Invoke(4)>>)
       ELSE Continue(w, Complete(Step4Skip(Step3Ok(heap[w]))), "returned",
                     <<Resolve(3)>>)

GenerationRejected(w, m) ==
    /\ At(w, "generation")
    /\ Continue(w, Step3Catch(heap[w], m), "returned", <<Reject(3, m)>>)

\* server.js:566-594: the uploader is imported, the documents are read and one
\* upload task per image is started; the worker awaits Promise.allSettled.
PublishStarted(w, n) ==
    /\ At(w, "publish")
    /\ heap' = heap
    /\ exec' = [exec EXCEPT ![w] = [pc |-> "uploading", uploads |-> n]]
    /\ UNCHANGED <<jobs, trace, rng, env, startRes, pollRes>>

\* a failure of the publish stage handled like a fatal one
PublishRejectedFatal(w, m) ==
    /\ At(w, "publish")
    /\ Continue(w, Fail(heap[w], <<"Etsy upload failed: ">> \o m), "returned",
                <<Reject(4, m)>>)

\* server.js:599-609: the import or the reading of a document throws
PublishRejected(w, m) ==
    /\ At(w, "publish")
    /\ Continue(w, Complete(Step4Catch(heap[w], m)), "returned", <<Reject(4, m)>>)

\* server.js:574-585: the images the stage uploads, given the documents d
SelectImages(d) ==
    IF d.history = Null
    THEN <<>>
    ELSE LET newIds == IF d.manifest = Null
                       THEN {}
                       ELSE { d.manifest[1].images[i].id :
                                i \in 1..Len(d.manifest[1].images) }
         IN  SelectSeq(d.history[1],
                       LAMBDA img : newIds = {} \/ img.id \in newIds)

\* server.js:153-157: the freshness test that GET /api/images applies
Fresh(manifest) == now - getTime(manifest.generatedAt) < tenMinutes

\* the uploads awaited with Promise.all: one rejection fails the stage
PublishSettledAll(w, rejected) ==
    /\ At(w, "uploading")
    /\ rejected \in 0..exec[w].uploads
    /\ heap' = [heap EXCEPT
                   ![w] = IF rejected = 0
                          THEN Complete(Step4Ok(@, exec[w].uploads))
                          ELSE Complete(Step4Catch(@, <<"upload failed">>))]
    /\ exec' = [exec EXCEPT ![w] = [pc |-> "returned", uploads |-> 0]]
    /\ trace' = [trace EXCEPT ![w] = Append(@, Resolve(4))]
    /\ UNCHANGED <<jobs, rng, env, startRes, pollRes>>

\* server.js:594-609: all tasks have settled, `rejected` of them rejected
PublishSettled(w, rejected) ==
    /\ At(w, "uploading")
    /\ rejected \in 0..exec[w].uploads
    /\ heap' = [heap EXCEPT
                   ![w] = Complete(Step4Ok(@, exec[w].uploads - rejected))]
    /\ exec' = [exec EXCEPT ![w] = [pc |-> "returned", uploads |-> 0]]
    /\ trace' = [trace EXCEPT ![w] = Append(@, Resolve(4))]
    /\ UNCHANGED <<jobs, rng, env, startRes, pollRes>>

\* what worker w does when the operation it awaits settles
WorkerStep(w) ==
    \/ DiscoveryResolved(w)
    \/ \E m \in ErrMsgs : DiscoveryRejected(w, m)
    \/ AnalysisResolved(w)
    \/ \E m \in ErrMsgs : AnalysisRejected(w, m)
    \/ GenerationResolved(w)
    \/ \E m \in ErrMsgs : GenerationRejected(w, m)
    \/ \E n \in ImageCounts : PublishStarted(w, n)
    \/ \E m \in ErrMsgs : PublishRejected(w, m)
    \/ \E f \in ImageCounts : PublishSettled(w, f)

----------------------------------------------------------------------------
(* GET /api/jobs/:id *)

\* an unknown id answered with a failed job
GetStatusFailed(m, h, id) ==
    IF MapGet(m, id) = 0
    THEN [status |-> 200,
          body |-> [success |-> TRUE, job |-> [NewJob(id) EXCEPT !.status = "failed"]]]
    ELSE [status |-> 200, body |-> [success |-> TRUE, job |-> h[MapGet(m, id)]]]

GetStatus(m, h, id) ==
    IF MapGet(m, id) = 0
    THEN [status |-> 404, body |-> [success |-> FALSE, error |-> "Job not found"]]
    ELSE [status |-> 200, body |-> [success |-> TRUE, job |-> h[MapGet(m, id)]]]

Poll(id) ==
    /\ pollRes' = <<[id |-> id, res |-> GetStatus(jobs, heap, id)]>>
    /\ UNCHANGED <<jobs, heap, exec, trace, rng, env, startRes>>

----------------------------------------------------------------------------
(* Specifications *)

\* no document in the data directory
NoDocs == [history |-> Null, manifest |-> Null]

\* testAsyncWorkflow has not been run
NoClient == [pc |-> "idle", jobId |-> <<>>, outcome |-> "none"]

\* no collaborator has been invoked: no wrapper has returned, no internal work
\* is left running, nothing was written after a return
NoCalls == [returned |-> {}, late |-> {}, after |-> {}]

\* a step of the job queue leaves the clock, the documents, the polling client
\* and the collaborators alone
\* no verifier issued, no callback requested
NoAuth == [issued |-> 0, callbacks |-> <<>>]

\* nothing has been called, requested or logged yet
RestInit ==
    /\ search = <<>>
    /\ gen = <<>>
    /\ listing = <<>>
    /\ etsyOAuthState = <<>>
    /\ oauth = NoAuth
    /\ logBuffer = <<>>
    /\ logCalls = <<>>

Frame == UNCHANGED <<now, docs, pub, client, collab, rest>>

Init ==
    /\ jobs = <<>>
    /\ heap = <<>>
    /\ exec = <<>>
    /\ trace = <<>>
    /\ rng = 0
    /\ env \in [ETSY_ACCESS_TOKEN : BOOLEAN, ETSY_SHOP_ID : BOOLEAN]
    /\ startRes = <<>>
    /\ pollRes = <<>>
    /\ now = 0
    /\ docs = NoDocs
    /\ pub = <<>>
    /\ client = NoClient
    /\ collab = NoCalls
    /\ RestInit

\* ids a client may ask for: every id drawn so far, and one not drawn yet
PollIds ==
    { heap[r].id : r \in 1..Len(heap) } \cup { generateJobId(now, Random(rng + 1)) }

Workers(limit) == { w \in 1..Len(exec) : w <= limit }

Next ==
    \/ Start(MaxStarts) /\ Frame
    \/ \E w \in Workers(MaxStarts) : DiscoveryResolved(w) /\ Frame
    \/ \E w \in Workers(MaxStarts), m \in ErrMsgs : DiscoveryRejected(w, m) /\ Frame
    \/ \E w \in Workers(MaxStarts) : AnalysisResolved(w) /\ Frame
    \/ \E w \in Workers(MaxStarts), m \in ErrMsgs : AnalysisRejected(w, m) /\ Frame
    \/ \E w \in Workers(MaxStarts) : GenerationResolved(w) /\ Frame
    \/ \E w \in Workers(MaxStarts), m \in ErrMsgs : GenerationRejected(w, m) /\ Frame
    \/ \E w \in Workers(MaxStarts), n \in ImageCounts : PublishStarted(w, n) /\ Frame
    \/ \E w \in Workers(MaxStarts), m \in ErrMsgs : PublishRejected(w, m) /\ Frame
    \/ \E w \in Workers(MaxStarts), f \in ImageCounts : PublishSettled(w, f) /\ Frame
    \/ \E id \in PollIds : Poll(id) /\ Frame

Spec == Init /\ [][Next]_vars

\* More Start requests than the store retains, on a server without marketplace
\* credentials (the publish stage is skipped).  The operations of the first
\* StoreResolving jobs settle, those of the later jobs stay pending.
InitStore == Init /\ ~env.ETSY_ACCESS_TOKEN /\ ~env.ETSY_SHOP_ID

NextStore ==
    \/ Start(StoreStarts) /\ Frame
    \/ \E w \in Workers(StoreResolving) : DiscoveryResolved(w) /\ Frame
    \/ \E w \in Workers(StoreResolving), m \in ErrMsgs : DiscoveryRejected(w, m) /\ Frame
    \/ \E w \in Workers(StoreResolving) : AnalysisResolved(w) /\ Frame
    \/ \E w \in Workers(StoreResolving), m \in ErrMsgs : AnalysisRejected(w, m) /\ Frame
    \/ \E w \in Workers(StoreResolving) : GenerationResolved(w) /\ Frame
    \/ \E w \in Workers(StoreResolving), m \in ErrMsgs : GenerationRejected(w, m) /\ Frame
    \/ \E id \in PollIds : Poll(id) /\ Frame

SpecStore == InitStore /\ [][NextStore]_vars

\* The same Starts and workers without the polls, and with every stage
\* operation of the first StoreResolving jobs settling sooner or later.
NextEvict ==
    \/ Start(StoreStarts) /\ Frame
    \/ \E w \in Workers(StoreResolving) : DiscoveryResolved(w) /\ Frame
    \/ \E w \in Workers(StoreResolving), m \in ErrMsgs : DiscoveryRejected(w, m) /\ Frame
    \/ \E w \in Workers(StoreResolving) : AnalysisResolved(w) /\ Frame
    \/ \E w \in Workers(StoreResolving), m \in ErrMsgs : AnalysisRejected(w, m) /\ Frame
    \/ \E w \in Workers(StoreResolving) : GenerationResolved(w) /\ Frame
    \/ \E w \in Workers(StoreResolving), m \in ErrMsgs : GenerationRejected(w, m) /\ Frame

SpecEvict ==
    /\ InitStore
    /\ [][NextEvict]_vars
    /\ \A w \in 1..StoreResolving : WF_vars(WorkerStep(w) /\ Frame)

\* The clock advances between the handlers and the continuations, and
\* Math.random() may return digits it returned before.
Digits == { Random(1), Random(2) }

Tick ==
    /\ now < MaxTime
    /\ now' = now + 1
    /\ UNCHANGED <<jobs, heap, exec, trace, rng, env, startRes, pollRes, docs, pub,
                   client, collab, rest>>

NextClock ==
    \/ \E r \in Digits : StartJob(ClockStarts, r) /\ Frame
    \/ Tick
    \/ \E w \in Workers(ClockStarts) : DiscoveryResolved(w) /\ Frame
    \/ \E w \in Workers(ClockStarts), m \in ErrMsgs : DiscoveryRejected(w, m) /\ Frame
    \/ \E w \in Workers(ClockStarts) : AnalysisResolved(w) /\ Frame
    \/ \E w \in Workers(ClockStarts), m \in ErrMsgs : AnalysisRejected(w, m) /\ Frame
    \/ \E w \in Workers(ClockStarts) : GenerationResolved(w) /\ Frame
    \/ \E w \in Workers(ClockStarts), m \in ErrMsgs : GenerationRejected(w, m) /\ Frame

SpecClock == InitStore /\ [][NextClock]_vars

\* Next without the polls, which read the store and change no job
NextLive ==
    \/ Start(MaxStarts) /\ Frame
    \/ \E w \in Workers(MaxStarts) : DiscoveryResolved(w) /\ Frame
    \/ \E w \in Workers(MaxStarts), m \in ErrMsgs : DiscoveryRejected(w, m) /\ Frame
    \/ \E w \in Workers(MaxStarts) : AnalysisResolved(w) /\ Frame
    \/ \E w \in Workers(MaxStarts), m \in ErrMsgs : AnalysisRejected(w, m) /\ Frame
    \/ \E w \in Workers(MaxStarts) : GenerationResolved(w) /\ Frame
    \/ \E w \in Workers(MaxStarts), m \in ErrMsgs : GenerationRejected(w, m) /\ Frame
    \/ \E w \in Workers(MaxStarts), n \in ImageCounts : PublishStarted(w, n) /\ Frame
    \/ \E w \in Workers(MaxStarts), m \in ErrMsgs : PublishRejected(w, m) /\ Frame
    \/ \E w \in Workers(MaxStarts), f \in ImageCounts : PublishSettled(w, f) /\ Frame

\* the jobs of Spec, with every stage operation of every job settling sooner
\* or later
SpecLive ==
    /\ Init
    /\ [][NextLive]_vars
    /\ \A w \in 1..MaxStarts : WF_vars(WorkerStep(w) /\ Frame)

\* The publish stage on a server that has both credentials, over the documents
\* it may find: history.json absent or listing the images 1..k, manifest.json
\* absent or naming any images, written ten minutes ago or a millisecond less.
ImageIds == 1..MaxImages

Image(n) == [id |-> n]

\* the images of the set ids, in ascending order of id
ImageList(ids) ==
    LET list == [n \in 1..MaxImages |-> Image(n)]
    IN  SelectSeq(list, LAMBDA img : img.id \in ids)

Histories == { Null } \cup { Some(ImageList(1..k)) : k \in 0..MaxImages }

Manifests ==
    { Null } \cup
    { Some([generatedAt |-> toISOString(t), images |-> ImageList(ids)]) :
        t \in {0, 1}, ids \in SUBSET ImageIds }

InitPublish ==
    /\ jobs = <<>>
    /\ heap = <<>>
    /\ exec = <<>>
    /\ trace = <<>>
    /\ rng = 0
    /\ env = [ETSY_ACCESS_TOKEN |-> TRUE, ETSY_SHOP_ID |-> TRUE]
    /\ startRes = <<>>
    /\ pollRes = <<>>
    /\ now = tenMinutes
    /\ docs \in [history : Histories, manifest : Manifests]
    /\ pub = <<>>
    /\ client = NoClient
    /\ collab = NoCalls
    /\ RestInit

\* server.js:566-594, the documents read: one upload task per selected image
PublishLoaded(w) ==
    LET images == SelectImages(docs)
    IN  /\ PublishStarted(w, Len(images))
        /\ pub' = Append(pub, [w |-> w, images |-> images,
                               manifest |-> docs.manifest,
                               settled |-> FALSE, rejected |-> 0])
        /\ UNCHANGED <<now, docs, client, collab, rest>>

\* server.js:594-609, and the record of how many tasks rejected
PublishDone(w, f) ==
    /\ PublishSettled(w, f)
    /\ pub' = [i \in 1..Len(pub) |->
                 IF pub[i].w = w
                 THEN [pub[i] EXCEPT !.settled = TRUE, !.rejected = f]
                 ELSE pub[i]]
    /\ UNCHANGED <<now, docs, client, collab, rest>>

NextPublish ==
    \/ Start(PublishStarts) /\ Frame
    \/ \E w \in Workers(PublishStarts) : DiscoveryResolved(w) /\ Frame
    \/ \E w \in Workers(PublishStarts) : AnalysisResolved(w) /\ Frame
    \/ \E w \in Workers(PublishStarts) : GenerationResolved(w) /\ Frame
    \/ \E w \in Workers(PublishStarts) : PublishLoaded(w)
    \/ \E w \in Workers(PublishStarts), m \in ErrMsgs : PublishRejected(w, m) /\ Frame
    \/ \E w \in Workers(PublishStarts), f \in 0..MaxImages : PublishDone(w, f)

SpecPublish == InitPublish /\ [][NextPublish]_vars

\* Two jobs on a server that has both credentials, with the documents their
\* collaborators write.  analyzeAndGenerateIdeas and generateImages race their
\* internal work against a timer (imageAnalyzer.js:279-296,
\* imageGenerator.js:164-190); Promise.race cancels nothing, so the internal
\* work of a wrapper that returned on its timer is still running.
\* history.json lists the images 1..MaxImages from the start.
InitFiles ==
    /\ jobs = <<>>
    /\ heap = <<>>
    /\ exec = <<>>
    /\ trace = <<>>
    /\ rng = 0
    /\ env = [ETSY_ACCESS_TOKEN |-> TRUE, ETSY_SHOP_ID |-> TRUE]
    /\ startRes = <<>>
    /\ pollRes = <<>>
    /\ now = 0
    /\ docs = [history |-> Some(ImageList(ImageIds)), manifest |-> Null]
    /\ pub = <<>>
    /\ client = NoClient
    /\ collab = NoCalls
    /\ RestInit

\* what ideas.json may hold when a collaborator reads it: nothing (no file), or
\* a list of so many ideas
Ideas == { Null } \cup { Some(n) : n \in ImageCounts }

\* imageGenerator.js:53-71, 192-204: the manifest of n images; `by` is the job
\* whose generation stage produced the image files the manifest names
WrittenManifest(w, n) ==
    Some([generatedAt |-> toISOString(now), images |-> ImageList(1..n), by |-> w])

\* the wrapper of call <<w, fn>> returns `out` items to the worker; if its
\* timer fired first, its internal work goes on
Returned(w, fn, out, timedOut) ==
    [collab EXCEPT
        !.returned = @ \cup { [w |-> w, fn |-> fn, out |-> out] },
        !.late = IF timedOut THEN @ \cup { <<w, fn>> } ELSE @]

\* imageAnalyzer.js:279-296: the wrapper resolves with the n ideas of the
\* internal work (written at 264 or 385) or, on its timer, with the n sample
\* ideas it writes itself (385)
AnalysisReturned(w, n, timedOut) ==
    /\ AnalysisResolved(w)
    /\ collab' = Returned(w, "analyze", n, timedOut)
    /\ UNCHANGED <<now, docs, pub, client, rest>>

\* imageGenerator.js:164-190: without ideas.json the internal work returns []
\* at once and writes nothing (26-29); otherwise the wrapper resolves with the
\* images of the manifest written by the internal work (71, 202) or, on its
\* timer, by its own createPlaceholders (182, 202)
GenerationReturned(w, ideas, timedOut) ==
    /\ timedOut => ideas # Null /\ ideas[1] > 0
    /\ GenerationResolved(w)
    /\ docs' = IF ideas = Null THEN docs
               ELSE [docs EXCEPT !.manifest = WrittenManifest(w, ideas[1])]
    /\ collab' = Returned(w, "generate", IF ideas = Null THEN 0 ELSE ideas[1],
                          timedOut)
    /\ UNCHANGED <<now, pub, client, rest>>

\* imageAnalyzer.js:264, imageGenerator.js:71: the internal work of a wrapper
\* that returned on its timer comes to its end and writes its document
LateWrite(w, fn, n) ==
    /\ <<w, fn>> \in collab.late
    /\ docs' = IF fn = "generate"
               THEN [docs EXCEPT !.manifest = WrittenManifest(w, n)]
               ELSE docs
    /\ collab' = [collab EXCEPT !.late = @ \ { <<w, fn>> },
                                !.after = @ \cup { <<w, fn>> }]
    /\ UNCHANGED <<jobs, heap, exec, trace, rng, env, startRes, pollRes, now,
                   pub, client, rest>>

NextFiles ==
    \/ Start(FilesStarts) /\ Frame
    \/ \E w \in Workers(FilesStarts) : DiscoveryResolved(w) /\ Frame
    \/ \E w \in Workers(FilesStarts), n \in ImageCounts, t \in BOOLEAN :
          AnalysisReturned(w, n, t)
    \/ \E w \in Workers(FilesStarts), ideas \in Ideas, t \in BOOLEAN :
          GenerationReturned(w, ideas, t)
    \/ \E w \in Workers(FilesStarts), fn \in {"analyze", "generate"}, n \in ImageCounts :
          LateWrite(w, fn, n)
    \/ \E w \in Workers(FilesStarts) : PublishLoaded(w)
    \/ \E w \in Workers(FilesStarts), f \in ImageCounts : PublishDone(w, f)

SpecFiles == InitFiles /\ [][NextFiles]_vars

\* The polling client (testAsyncWorkflow) against a server without Etsy
\* credentials that other clients send Start requests to as well.

\* part_004:933-941: the start request; the client keeps the id of the response
ClientStart ==
    /\ client.pc = "idle"
    /\ Start(StoreStarts)
    /\ client' = [pc |-> "polling", jobId |-> <<startRes'[1].jobId>>,
                  outcome |-> "none"]
    /\ UNCHANGED <<now, docs, pub, collab, rest>>

\* a not-found response read as the report of a failed job
ClientPollNotFoundAsFailed ==
    /\ client.pc = "polling"
    /\ Poll(client.jobId[1])
    /\ LET body == pollRes'[1].res.body
       IN  client' =
             IF ~body.success THEN [client EXCEPT !.pc = "done", !.outcome = "failed"]
             ELSE IF body.job.status = "running" THEN client
             ELSE IF body.job.status = "completed"
                  THEN [client EXCEPT !.pc = "done", !.outcome = "completed"]
             ELSE [client EXCEPT !.pc = "done", !.outcome = "failed"]
    /\ UNCHANGED <<now, docs, pub, collab, rest>>

\* part_004:947-974: one turn of the loop, from the fetch to the test of
\* `status`; an unsuccessful body throws and ends in the catch (972-974), a
\* running job leaves the client in the loop (the 2 s timer, 964-966), any
\* other status ends the loop with one of the two reports (969-973)
ClientPoll ==
    /\ client.pc = "polling"
    /\ Poll(client.jobId[1])
    /\ LET body == pollRes'[1].res.body
       IN  client' =
             IF ~body.success THEN [client EXCEPT !.pc = "done", !.outcome = "error"]
             ELSE IF body.job.status = "running" THEN client
             ELSE IF body.job.status = "completed"
                  THEN [client EXCEPT !.pc = "done", !.outcome = "completed"]
             ELSE [client EXCEPT !.pc = "done", !.outcome = "failed"]
    /\ UNCHANGED <<now, docs, pub, collab, rest>>

\* the worker of the job the client started
ClientWorkers == { w \in 1..Len(heap) : client.jobId = <<heap[w].id>> }

\* the other jobs matter to the client only by filling the store: their
\* workers are left at their first stage operation
NextClient ==
    \/ ClientStart
    \/ Start(StoreStarts) /\ Frame
    \/ \E w \in ClientWorkers : DiscoveryResolved(w) /\ Frame
    \/ \E w \in ClientWorkers, m \in ErrMsgs : DiscoveryRejected(w, m) /\ Frame
    \/ \E w \in ClientWorkers : AnalysisResolved(w) /\ Frame
    \/ \E w \in ClientWorkers, m \in ErrMsgs : AnalysisRejected(w, m) /\ Frame
    \/ \E w \in ClientWorkers : GenerationResolved(w) /\ Frame
    \/ \E w \in ClientWorkers, m \in ErrMsgs : GenerationRejected(w, m) /\ Frame
    \/ ClientPoll

\* the loop's timer fires and the server answers every request
SpecClient == InitStore /\ [][NextClient]_vars /\ WF_vars(ClientPoll)

----------------------------------------------------------------------------
(* searchTrendsApi of src/src/scraper/googleScraper.js *)

\* String.prototype.includes, for a needle that is one token
includes(str, token) == \E i \in 1..Len(str) : str[i] = token

\* what searchTrendsApiOnce may reject with: its own timer (googleScraper.js:
\* 103), an `error` event of the request (102), a status outside 2xx with the
\* first 200 characters of the body (98), a body that is not JSON (95)
SearchErrors ==
    { [cause |-> "timer",   message |-> <<"Search API ", "timeout">>],
      [cause |-> "network", message |-> <<"read ", "ECONNRESET">>],
      [cause |-> "network", message |-> <<"connect ", "ETIMEDOUT", " 10.0.0.1:443">>],
      [cause |-> "network", message |-> <<"getaddrinfo ", "ENOTFOUND">>],
      [cause |-> "status",  message |-> <<"API Error ", "401", ": ", "Unauthorized">>],
      [cause |-> "status",
       message |-> <<"API Error ", "401", ": ", "session ", "timeout">>],
      [cause |-> "parse",   message |-> <<"Unexpected token <">>] }

\* googleScraper.js:50
isRetryable(e) ==
    \/ includes(e.message, "timeout")
    \/ includes(e.message, "ECONNRESET")
    \/ includes(e.message, "ETIMEDOUT")

\* googleScraper.js:44-47: a call; without the token it throws at once,
\* otherwise its first attempt is under way
SearchCall ==
    /\ Len(search) < SearchCalls
    /\ search' = Append(search,
          IF env.AI_BUILDER_TOKEN
          THEN [pc |-> "attempt", attempt |-> 1, failed |-> <<>>, thrown |-> Null]
          ELSE [pc |-> "rejected", attempt |-> 1, failed |-> <<>>,
                thrown |-> Some(<<"AI_BUILDER_TOKEN missing">>)])
    /\ UNCHANGED <<pipeline, gen, listing, etsyOAuthState, oauth, logBuffer,
                   logCalls>>

\* googleScraper.js:47: the attempt under way resolves, and so does the call
SearchResolved(c) ==
    /\ c \in 1..Len(search)
    /\ search[c].pc = "attempt"
    /\ search' = [search EXCEPT ![c].pc = "resolved"]
    /\ UNCHANGED <<pipeline, gen, listing, etsyOAuthState, oauth, logBuffer,
                   logCalls>>

\* googleScraper.js:48-57: the attempt under way rejects with e; the call
\* waits 3 s to try again, or throws e
SearchRejected(c, e) ==
    /\ c \in 1..Len(search)
    /\ search[c].pc = "attempt"
    /\ search' = [search EXCEPT ![c] =
          IF search[c].attempt = 1 /\ isRetryable(e)
          THEN [@ EXCEPT !.pc = "waiting", !.failed = Append(@, e)]
          ELSE [@ EXCEPT !.pc = "rejected", !.failed = Append(@, e),
                         !.thrown = Some(e.message)]]
    /\ UNCHANGED <<pipeline, gen, listing, etsyOAuthState, oauth, logBuffer,
                   logCalls>>

\* googleScraper.js:53-54: the 3 s are over, searchTrendsApi(query, 2)
SearchRetry(c) ==
    /\ c \in 1..Len(search)
    /\ search[c].pc = "waiting"
    /\ search' = [search EXCEPT ![c].pc = "attempt", ![c].attempt = 2]
    /\ UNCHANGED <<pipeline, gen, listing, etsyOAuthState, oauth, logBuffer,
                   logCalls>>

InitSearch ==
    /\ jobs = <<>>
    /\ heap = <<>>
    /\ exec = <<>>
    /\ trace = <<>>
    /\ rng = 0
    /\ env \in [ETSY_ACCESS_TOKEN : {FALSE}, ETSY_SHOP_ID : {FALSE},
                 AI_BUILDER_TOKEN : BOOLEAN]
    /\ startRes = <<>>
    /\ pollRes = <<>>
    /\ now = 0
    /\ docs = NoDocs
    /\ pub = <<>>
    /\ client = NoClient
    /\ collab = NoCalls
    /\ RestInit

NextSearch ==
    \/ SearchCall
    \/ \E c \in 1..SearchCalls : SearchResolved(c)
    \/ \E c \in 1..SearchCalls, e \in SearchErrors : SearchRejected(c, e)
    \/ \E c \in 1..SearchCalls : SearchRetry(c)

SpecSearch == InitSearch /\ [][NextSearch]_vars

----------------------------------------------------------------------------
(* generateSingleImage of src/src/generator/imageGenerator.js *)

MAX_RETRIES == 3

\* String(n).padStart(2, '0'), for n below 100
padStart2(n) == IF n < 10 THEN <<"0", ToString(n)>> ELSE <<ToString(n)>>

\* imageGenerator.js:88: `design_${String(index + 1).padStart(2, '0')}.png`
Filename(index) == <<"design_">> \o padStart2(index + 1) \o <<".png">>

\* the idea at position index of ideas.json
Idea(index) ==
    [title |-> <<"title", ToString(index)>>, theme |-> <<"theme", ToString(index)>>,
     style |-> <<"style", ToString(index)>>]

\* imageGenerator.js:152-158
ManifestEntry(idea, index) ==
    [id |-> index + 1, title |-> idea.title, description |-> idea.theme,
     style |-> idea.style,
     imagePath |-> <<"/generated_images/">> \o Filename(index)]

\* String.prototype.toLowerCase on the tokens that occur
toLowerCase(str) ==
    [i \in 1..Len(str) |-> IF str[i] = "Quota" THEN "quota" ELSE str[i]]

\* what an attempt may fail with: a response without image data (133), or a
\* rejection of model.generateContent
GenErrors ==
    { <<"No image data found in response">>,
      <<"[", "429", " Too Many Requests]">>,
      <<"Quota", " exceeded">>,
      <<"fetch failed">> }

\* imageGenerator.js:136
isQuota(message) ==
    includes(message, "429") \/ includes(toLowerCase(message), "quota")

\* imageGenerator.js:87-96: the call for the idea at `index`, up to the await
\* of its first attempt
GenCall ==
    /\ Len(gen) < GenCalls
    /\ gen' = Append(gen, [pc |-> "attempt", attempt |-> 1, file |-> "none",
                           wait |-> 0, returned |-> Null])
    /\ UNCHANGED <<pipeline, search, listing, etsyOAuthState, oauth, logBuffer,
                   logCalls>>

\* the call returns without a placeholder when no attempt gave an image
GenFailedNoPlaceholder(c, message) ==
    /\ c \in 1..Len(gen)
    /\ gen[c].pc = "attempt"
    /\ gen' = [gen EXCEPT ![c] =
          IF gen[c].attempt < MAX_RETRIES
          THEN [@ EXCEPT !.pc = "waiting",
                         !.wait = IF isQuota(message) THEN 5000 ELSE 2000]
          ELSE [@ EXCEPT !.pc = "returned",
                         !.returned = Some(ManifestEntry(Idea(c - 1), c - 1))]]
    /\ UNCHANGED <<pipeline, search, listing, etsyOAuthState, oauth, logBuffer,
                   logCalls>>

\* imageGenerator.js:121-132, 146-158: the attempt gave image data; the file
\* is written, the loop is left and the entry returned
GenImage(c) ==
    /\ c \in 1..Len(gen)
    /\ gen[c].pc = "attempt"
    /\ gen' = [gen EXCEPT ![c] =
          [@ EXCEPT !.pc = "returned", !.file = "image",
                    !.returned = Some(ManifestEntry(Idea(c - 1), c - 1))]]
    /\ UNCHANGED <<pipeline, search, listing, etsyOAuthState, oauth, logBuffer,
                   logCalls>>

\* imageGenerator.js:133-158: the attempt failed with `message`; before the
\* last attempt the call waits 5 s (quota) or 2 s, after it the loop is over,
\* the placeholder is written and the entry returned
GenFailed(c, message) ==
    /\ c \in 1..Len(gen)
    /\ gen[c].pc = "attempt"
    /\ gen' = [gen EXCEPT ![c] =
          IF gen[c].attempt < MAX_RETRIES
          THEN [@ EXCEPT !.pc = "waiting",
                         !.wait = IF isQuota(message) THEN 5000 ELSE 2000]
          ELSE [@ EXCEPT !.pc = "returned", !.file = "placeholder",
                         !.returned = Some(ManifestEntry(Idea(c - 1), c - 1))]]
    /\ UNCHANGED <<pipeline, search, listing, etsyOAuthState, oauth, logBuffer,
                   logCalls>>

\* imageGenerator.js:96: the wait is over, the next turn of the loop
GenRetry(c) ==
    /\ c \in 1..Len(gen)
    /\ gen[c].pc = "waiting"
    /\ gen' = [gen EXCEPT ![c].pc = "attempt", ![c].attempt = @ + 1]
    /\ UNCHANGED <<pipeline, search, listing, etsyOAuthState, oauth, logBuffer,
                   logCalls>>

NextGen ==
    \/ GenCall
    \/ \E c \in 1..GenCalls : GenImage(c)
    \/ \E c \in 1..GenCalls, m \in GenErrors : GenFailed(c, m)
    \/ \E c \in 1..GenCalls : GenRetry(c)

SpecGen == InitStore /\ [][NextGen]_vars

----------------------------------------------------------------------------
(* createDraftListing of src/src/etsy/etsyUploader.js *)

\* what the publish stage passes: the idea at the image's position of
\* ideas.json (server.js:590), whose fields are what the synthesis model
\* answered (imageAnalyzer.js:242-248), with or without a `title`; and the
\* path of an image file that exists or not
ListingArgs == [title : BOOLEAN, image : BOOLEAN]

\* etsyUploader.js:137-175: the call up to the await of the listing request.
\* Without the shop id it throws (138-140); building the payload reads
\* idea.title.substring (147), which throws a TypeError for an idea without a
\* title; otherwise the request POST /shops/:id/listings is sent.
ListingCall(a) ==
    /\ Len(listing) < ListingCalls
    /\ listing' = Append(listing,
          IF ~env.ETSY_SHOP_ID
          THEN [args |-> a, pc |-> "rejected", create |-> "none", upload |-> "none",
                error |-> Some(<<"ETSY_SHOP_ID not set in .env">>)]
          ELSE IF ~a.title
          THEN [args |-> a, pc |-> "rejected", create |-> "none", upload |-> "none",
                error |-> Some(<<"Cannot read properties of undefined ",
                                 "(reading 'substring')">>)]
          ELSE [args |-> a, pc |-> "creating", create |-> "sent", upload |-> "none",
                error |-> Null])
    /\ UNCHANGED <<pipeline, search, gen, etsyOAuthState, oauth, logBuffer,
                   logCalls>>

\* etsyUploader.js:175-187: the listing request succeeded; the image is
\* uploaded if its file exists, otherwise the call resolves
ListingCreated(c) ==
    /\ c \in 1..Len(listing)
    /\ listing[c].pc = "creating"
    /\ listing' = [listing EXCEPT ![c] =
          IF @.args.image
          THEN [@ EXCEPT !.pc = "uploading", !.create = "ok", !.upload = "sent"]
          ELSE [@ EXCEPT !.pc = "resolved", !.create = "ok"]]
    /\ UNCHANGED <<pipeline, search, gen, etsyOAuthState, oauth, logBuffer,
                   logCalls>>

\* etsyUploader.js:175: the listing request failed, and so does the call
ListingCreateFailed(c, m) ==
    /\ c \in 1..Len(listing)
    /\ listing[c].pc = "creating"
    /\ listing' = [listing EXCEPT ![c] =
          [@ EXCEPT !.pc = "rejected", !.create = "failed", !.error = Some(m)]]
    /\ UNCHANGED <<pipeline, search, gen, etsyOAuthState, oauth, logBuffer,
                   logCalls>>

\* etsyUploader.js:179-197: the image upload settled; a failure is logged
\* (183-185) and the call resolves with success either way
ListingUploadSettled(c, ok) ==
    /\ c \in 1..Len(listing)
    /\ listing[c].pc = "uploading"
    /\ listing' = [listing EXCEPT ![c] =
          [@ EXCEPT !.pc = "resolved", !.upload = IF ok THEN "ok" ELSE "failed"]]
    /\ UNCHANGED <<pipeline, search, gen, etsyOAuthState, oauth, logBuffer,
                   logCalls>>

InitListing ==
    /\ jobs = <<>>
    /\ heap = <<>>
    /\ exec = <<>>
    /\ trace = <<>>
    /\ rng = 0
    /\ env \in [ETSY_ACCESS_TOKEN : {TRUE}, ETSY_SHOP_ID : BOOLEAN]
    /\ startRes = <<>>
    /\ pollRes = <<>>
    /\ now = 0
    /\ docs = NoDocs
    /\ pub = <<>>
    /\ client = NoClient
    /\ collab = NoCalls
    /\ RestInit

NextListing ==
    \/ \E a \in ListingArgs : ListingCall(a)
    \/ \E c \in 1..ListingCalls : ListingCreated(c)
    \/ \E c \in 1..ListingCalls, m \in ErrMsgs : ListingCreateFailed(c, m)
    \/ \E c \in 1..ListingCalls, ok \in BOOLEAN : ListingUploadSettled(c, ok)

SpecListing == InitListing /\ [][NextListing]_vars

----------------------------------------------------------------------------
(* The Etsy OAuth2 PKCE routes *)

\* server.js:296-301: 64 random characters; the n-th verifier of the run
generateCodeVerifier(n) == <<"verifier", ToString(n)>>

\* server.js:346: Math.random().toString(36).substring(2) + Date.now()
OAuthStateString(r, t) == r \o <<ToString(t)>>

\* server.js:350-353: the entries older than ten minutes are deleted
CleanupStates(m, t) ==
    SelectSeq(m, LAMBDA e : ~(t - e[2].createdAt > tenMinutes))

\* server.js:339-368, from the generation of the state on: store the
\* verifier, clean up, redirect.  Without ETSY_API_KEY the handler answers 400
\* and stores nothing.
AuthStart(r) ==
    /\ env.ETSY_API_KEY
    /\ oauth.issued < AuthStarts
    /\ LET state == OAuthStateString(r, now)
           entry == [codeVerifier |-> generateCodeVerifier(oauth.issued + 1),
                     createdAt |-> now]
       IN  etsyOAuthState' = CleanupStates(MapSet(etsyOAuthState, state, entry), now)
    /\ oauth' = [oauth EXCEPT !.issued = @ + 1]
    /\ UNCHANGED <<pipeline, search, gen, listing, logBuffer, logCalls>>

\* server.js:378: etsyOAuthState.get(state), undefined being Null
StoredState(state) ==
    IF MapHas(etsyOAuthState, state)
    THEN Some(MapGet(etsyOAuthState, state))
    ELSE Null

\* what a callback request leaves in `oauth`; `expired` tells whether the
\* state it found was stored more than ten minutes before
CallbackRecord(q, outcome, stored) ==
    [state |-> q.state, outcome |-> outcome,
     codeVerifier |-> IF stored = Null THEN Null ELSE Some(stored[1].codeVerifier),
     expired |-> stored # Null /\ now - stored[1].createdAt > tenMinutes]

\* the state stays in the Map when the exchange is attempted
CallbackKeepsState(q) ==
    /\ Len(oauth.callbacks) < MaxCallbacks
    /\ LET stored == StoredState(q.state)
       IN  IF q.error \/ ~q.code \/ stored = Null
           THEN /\ oauth' = [oauth EXCEPT !.callbacks =
                               Append(@, CallbackRecord(q, "rejected", Null))]
                /\ UNCHANGED etsyOAuthState
           ELSE /\ oauth' = [oauth EXCEPT !.callbacks =
                               Append(@, CallbackRecord(q, "exchanging", stored))]
                /\ UNCHANGED etsyOAuthState
    /\ UNCHANGED <<pipeline, search, gen, listing, logBuffer, logCalls>>

\* server.js:371-386, up to the await of exchangeEtsyCode: a request with
\* `error`, without `code` or with a state that is not stored is answered 400
\* (374-381); otherwise the state is deleted and the exchange starts with the
\* stored verifier
Callback(q) ==
    /\ Len(oauth.callbacks) < MaxCallbacks
    /\ LET stored == StoredState(q.state)
       IN  IF q.error \/ ~q.code \/ stored = Null
           THEN /\ oauth' = [oauth EXCEPT !.callbacks =
                               Append(@, CallbackRecord(q, "rejected", Null))]
                /\ UNCHANGED etsyOAuthState
           ELSE /\ oauth' = [oauth EXCEPT !.callbacks =
                               Append(@, CallbackRecord(q, "exchanging", stored))]
                /\ etsyOAuthState' = MapDelete(etsyOAuthState, q.state)
    /\ UNCHANGED <<pipeline, search, gen, listing, logBuffer, logCalls>>

\* server.js:386-440: the exchange settles; the tokens are shown, or the
\* catch answers 500.  The Map is not touched again.
ExchangeSettled(i, ok) ==
    /\ i \in 1..Len(oauth.callbacks)
    /\ oauth.callbacks[i].outcome = "exchanging"
    /\ oauth' = [oauth EXCEPT !.callbacks[i].outcome =
                     IF ok THEN "tokens" ELSE "failed"]
    /\ UNCHANGED <<pipeline, search, gen, listing, etsyOAuthState, logBuffer,
                   logCalls>>

\* Date.now() advances by ten minutes
AuthTick ==
    /\ now \div tenMinutes < AuthTicks
    /\ now' = now + tenMinutes
    /\ UNCHANGED <<jobs, heap, exec, trace, rng, env, startRes, pollRes, docs,
                   pub, client, collab, rest>>

\* the states a callback request may carry: those in the Map, and one that
\* was never stored
CallbackStates ==
    { etsyOAuthState[i][1] : i \in 1..Len(etsyOAuthState) } \cup { <<"forged">> }

Queries ==
    [state : CallbackStates \cup { oauth.callbacks[i].state : i \in 1..Len(oauth.callbacks) },
     code : BOOLEAN, error : BOOLEAN]

InitOAuth ==
    /\ jobs = <<>>
    /\ heap = <<>>
    /\ exec = <<>>
    /\ trace = <<>>
    /\ rng = 0
    /\ env \in [ETSY_ACCESS_TOKEN : {FALSE}, ETSY_SHOP_ID : {FALSE},
                 ETSY_API_KEY : BOOLEAN]
    /\ startRes = <<>>
    /\ pollRes = <<>>
    /\ now = 0
    /\ docs = NoDocs
    /\ pub = <<>>
    /\ client = NoClient
    /\ collab = NoCalls
    /\ RestInit

NextOAuth ==
    \/ \E r \in Digits : AuthStart(r)
    \/ \E q \in Queries : Callback(q)
    \/ \E i \in 1..MaxCallbacks, ok \in BOOLEAN : ExchangeSettled(i, ok)
    \/ AuthTick

SpecOAuth == InitOAuth /\ [][NextOAuth]_vars

----------------------------------------------------------------------------
(* The debug log buffer *)

LOG_BUFFER_SIZE == 200

toUpperCase(type) == IF type = "info" THEN "INFO" ELSE "ERROR"

\* server.js:31: `[${new Date().toISOString()}] [${type.toUpperCase()}] ${msg}`
LogEntry(type, msg) ==
    <<"[", toISOString(now), "] [", toUpperCase(type), "] ">> \o msg

\* the buffer drops its newest entry when it is full
addToLogBufferDropsNewest(buffer, type, msg) ==
    IF Len(buffer) + 1 > LOG_BUFFER_SIZE
    THEN buffer
    ELSE Append(buffer, LogEntry(type, msg))

\* server.js:26-38: push, then shift once if the buffer got too long
addToLogBuffer(buffer, type, msg) ==
    LET pushed == Append(buffer, LogEntry(type, msg))
    IN  IF Len(pushed) > LOG_BUFFER_SIZE THEN Tail(pushed) ELSE pushed

\* server.js:44-52: a console.log (type "info") or console.error (type
\* "error") call; the n-th call of the run logs the text n
Console(type) ==
    /\ Len(logCalls) < MaxLogCalls
    /\ LET msg == <<ToString(Len(logCalls) + 1)>>
       IN  /\ logBuffer' = addToLogBuffer(logBuffer, type, msg)
           /\ logCalls' = Append(logCalls, LogEntry(type, msg))
    /\ UNCHANGED <<pipeline, search, gen, listing, etsyOAuthState, oauth>>

NextLog ==
    \/ Console("info")
    \/ Len(logCalls) < LogWindow /\ Console("error")

SpecLog == InitStore /\ [][NextLog]_vars

----------------------------------------------------------------------------
(* Properties *)

Terminal == {"completed", "failed"}

Last(s) == s[Len(s)]

IsPrefix(s, t) == Len(s) <= Len(t) /\ SubSeq(t, 1, Len(s)) = s

IsSuffix(s, t) == Len(s) <= Len(t) /\ SubSeq(t, Len(t) - Len(s) + 1, Len(t)) = s

\* C1: a job is created `running`, its status changes at most once, from
\* `running` to `completed` or to `failed`, and a terminal status never changes.
C1_StatusTransitions ==
    [][ /\ Len(heap') >= Len(heap)
        /\ \A r \in 1..Len(heap) :
              heap'[r].status # heap[r].status
                  => heap[r].status = "running" /\ heap'[r].status \in Terminal
        /\ \A r \in (Len(heap) + 1)..Len(heap') : heap'[r].status = "running"
      ]_vars

\* two jobs of one run, one ended `completed` and the other `failed`
C1_Witness ==
    \E r, q \in 1..Len(heap) :
        heap[r].status = "completed" /\ heap[q].status = "failed"

\* C2: when the synthesis or the generation operation rejects, that is the last
\* thing the worker does with a stage: the job is `failed`, `error` is a
\* non-empty string ending in the thrown message, the last log entry is the
\* `error` entry, and no entry and no invocation belongs to a later stage.
C2_FatalStageFails ==
    \A w \in 1..Len(trace) : \A i \in 1..Len(trace[w]) :
        LET e == trace[w][i]
            job == heap[w]
        IN  (e.ev = "reject" /\ e.stage \in {2, 3}) =>
              /\ i = Len(trace[w])
              /\ exec[w].pc = "returned"
              /\ job.status = "failed"
              /\ job.error # Null
              /\ Len(job.error[1]) > 0
              /\ IsSuffix(e.message, job.error[1])
              /\ Last(job.logs).type = "error"
              /\ \A k \in 1..Len(job.logs) :
                    "step" \in DOMAIN job.logs[k] => job.logs[k].step <= e.stage
              /\ \A k \in 1..Len(trace[w]) : trace[w][k].stage <= e.stage

\* a job whose generation operation rejected with a non-empty message
C2_Witness ==
    \E w \in 1..Len(trace) :
        /\ trace[w] # <<>>
        /\ Last(trace[w]) = Reject(3, <<"ETIMEDOUT">>)
        /\ heap[w].status = "failed"

\* C3: when the discovery operation rejects, the logs continue with a step-1
\* `warning` entry and a step-1 `success` entry, the synthesis operation is the
\* next one invoked, and the job is `running` when it is.
C3_DiscoveryRecovers ==
    \A w \in 1..Len(trace) : \A i \in 1..Len(trace[w]) :
        LET logs == heap[w].logs
        IN  (trace[w][i].ev = "reject" /\ trace[w][i].stage = 1) =>
              /\ i = 2
              /\ Len(trace[w]) >= 3
              /\ trace[w][3] = Invoke(2)
              /\ Len(logs) >= 4
              /\ logs[2].type = "warning" /\ logs[2].step = 1
              /\ logs[3].type = "success" /\ logs[3].step = 1
              /\ logs[4].type = "info" /\ logs[4].step = 2
              /\ Len(trace[w]) = 3 => heap[w].status = "running"

\* a job whose discovery rejected and whose synthesis has resolved since
C3_Witness ==
    \E w \in 1..Len(trace) :
        /\ Len(trace[w]) >= 4
        /\ trace[w][2].ev = "reject"
        /\ trace[w][4] = Resolve(2)

\* C4: the store never holds more than MaxJobs records once a Start handler
\* has run, however many Starts there were and whatever the jobs are doing.
C4_StoreBounded == Len(jobs) <= MaxJobs /\ Cardinality(MapKeys(jobs)) = Len(jobs)

\* the store is full and at least one record has been evicted
C4_Witness == Len(jobs) = MaxJobs /\ rng > MaxJobs

\* C5: of the ids created so far, exactly the MaxJobs most recent ones are
\* found by Get status, each with its own record; the n-th job is gone from
\* the store as soon as job n + MaxJobs has been started, running or not.
C5_MostRecentRetained ==
    /\ \A n \in 1..rng :
          LET id  == heap[n].id
              res == GetStatus(jobs, heap, id)
          IN  IF rng - n < MaxJobs
              THEN res.status = 200 /\ res.body.job.id = id
              ELSE res.status = 404
    /\ \A i \in 1..Len(jobs) : jobs[i][1] = heap[rng - Len(jobs) + i].id

\* two jobs evicted, the first after it ended and the second while running
C5_Witness ==
    /\ rng = MaxJobs + 2
    /\ heap[1].status \in Terminal /\ ~MapHas(jobs, heap[1].id)
    /\ heap[2].status = "running" /\ ~MapHas(jobs, heap[2].id)

PollFound(p) == p # <<>> /\ p[1].res.status = 200

PollJob(p) == p[1].res.body.job

\* this step is a poll that found the job the previous poll asked for and found
SamePolled == PollFound(pollRes) /\ PollFound(pollRes') /\ pollRes'[1].id = pollRes[1].id

\* C6: after a poll that returned a terminal status, a poll of the same id that
\* finds the job returns the same record; and a record whose status is terminal
\* is not changed by any step.
C6_TerminalStable ==
    [][ /\ (SamePolled /\ PollJob(pollRes).status \in Terminal)
              => PollJob(pollRes') = PollJob(pollRes)
        /\ \A r \in 1..Len(heap) :
              heap[r].status \in Terminal => heap'[r] = heap[r]
      ]_vars

\* the latest poll returned a completed job that went through the publish stage
C6_Witness ==
    /\ PollFound(pollRes)
    /\ PollJob(pollRes).status = "completed"
    /\ \E k \in 1..Len(PollJob(pollRes).logs) :
          PollJob(pollRes).logs[k].type = "warning" /\ PollJob(pollRes).logs[k].step = 4

\* C7: the logs returned by a poll extend the logs returned by the previous
\* poll of the same id, and every step leaves the logs of every job a prefix of
\* what they become.
C7_LogsAppendOnly ==
    [][ /\ SamePolled => IsPrefix(PollJob(pollRes).logs, PollJob(pollRes').logs)
        /\ \A r \in 1..Len(heap) : IsPrefix(heap[r].logs, heap'[r].logs)
      ]_vars

\* a job polled while running has failed since: its logs are longer now
C7_Witness ==
    /\ PollFound(pollRes)
    /\ PollJob(pollRes).status = "running"
    /\ \E r \in 1..Len(heap) :
          /\ heap[r].id = pollRes[1].id
          /\ heap[r].status = "failed"
          /\ Len(heap[r].logs) > Len(PollJob(pollRes).logs)

\* C8: the step that produces a Start response creates the job it names, and
\* leaves that job `running`, suspended on its first stage operation, with no
\* stage operation settled.
C8_StartDoesNotAwait ==
    [][ startRes' # startRes =>
          /\ Len(heap') = Len(heap) + 1
          /\ LET r == Len(heap')
             IN  /\ startRes'[1].success
                 /\ startRes'[1].jobId = heap'[r].id
                 /\ heap'[r].status = "running"
                 /\ exec'[r].pc = "discovery"
                 /\ \A k \in 1..Len(trace'[r]) : trace'[r][k].ev = "invoke"
      ]_vars

\* the job named by the latest Start response has failed since
C8_Witness ==
    /\ startRes # <<>>
    /\ \E r \in 1..Len(heap) :
          heap[r].id = startRes[1].jobId /\ heap[r].status = "failed"

\* the draw number of an id; rng + 1 for an id that was not drawn
IdIndex(id) ==
    IF \E n \in 1..Len(heap) : heap[n].id = id
    THEN CHOOSE n \in 1..Len(heap) : heap[n].id = id
    ELSE rng + 1

\* C9: a Get status for an id that was created and is among the MaxJobs most
\* recent returns 200 with the current record of that job; for an id not created
\* yet, or evicted, it returns 404 with success false and "Job not found", and
\* no job at all.
C9_GetStatus ==
    [][ pollRes' # pollRes =>
          LET id  == pollRes'[1].id
              res == pollRes'[1].res
              n   == IdIndex(id)
          IN  IF n <= rng /\ rng - n < MaxJobs
              THEN /\ res.status = 200
                   /\ res.body.success
                   /\ res.body.job.id = id
                   /\ \E r \in 1..Len(heap) : heap[r].id = id /\ res.body.job = heap[r]
              ELSE /\ res.status = 404
                   /\ res.body = [success |-> FALSE, error |-> "Job not found"]
      ]_vars

\* the latest poll asked for the first job after its eviction
C9_Witness ==
    /\ pollRes # <<>>
    /\ rng > MaxJobs
    /\ pollRes[1].id = heap[1].id
    /\ pollRes[1].res.status = 404

\* the operations of a worker alternate invoke and settle, stage by stage
TraceOrdered ==
    \A w \in 1..Len(trace) : \A i \in 1..Len(trace[w]) :
        /\ trace[w][i].stage = (i + 1) \div 2
        /\ (i % 2 = 1) => trace[w][i].ev = "invoke"
        /\ (i % 2 = 0) => trace[w][i].ev \in {"resolve", "reject"}

\* C10: the stage operations of a job are invoked in the order 1, 2, 3, 4, each
\* only after the previous one has settled; and currentStep never decreases, in
\* the record and from one poll of an id to the next.
C10_StagesInOrder ==
    [][ /\ TraceOrdered'
        /\ SamePolled =>
              PollJob(pollRes).currentStep <= PollJob(pollRes').currentStep
        /\ \A r \in 1..Len(heap) : heap[r].currentStep <= heap'[r].currentStep
      ]_vars

\* a job all four stage operations of which were invoked and have settled
C10_Witness ==
    \E w \in 1..Len(trace) : Len(trace[w]) = 8 /\ heap[w].status = "completed"

\* t occurs in s as a run of consecutive tokens
Contains(s, t) ==
    \E i \in 0..(Len(s) - Len(t)) : SubSeq(s, i + 1, i + Len(t)) = t

\* C12: when the access token or the shop id is not set and the generation
\* operation has resolved, the worker has returned without invoking the
\* publish stage: the job is `completed`, and its logs end with the `info`
\* entry "Etsy upload skipped ..." followed by the completion entry.
C12_SkippedWithoutCredentials ==
    \A w \in 1..Len(trace) :
        LET logs == heap[w].logs
        IN  ( /\ ~env.ETSY_ACCESS_TOKEN \/ ~env.ETSY_SHOP_ID
              /\ \E i \in 1..Len(trace[w]) : trace[w][i] = Resolve(3) ) =>
              /\ \A i \in 1..Len(trace[w]) : trace[w][i].stage # 4
              /\ exec[w].pc = "returned"
              /\ heap[w].status = "completed"
              /\ heap[w].error = Null
              /\ Len(logs) >= 2
              /\ logs[Len(logs) - 1].type = "info"
              /\ logs[Len(logs) - 1].step = 4
              /\ Contains(logs[Len(logs) - 1].message, <<"Etsy upload skipped (ETSY_ACCESS_TOKEN not set)">>)
              /\ Last(logs).message = <<"Workflow Completed!">>
              /\ \A k \in 1..Len(logs) :
                    logs[k].step = 4 => k >= Len(logs) - 1

\* a completed job on a server that has the access token but no shop id
C12_Witness ==
    /\ env.ETSY_ACCESS_TOKEN /\ ~env.ETSY_SHOP_ID
    /\ \E w \in 1..Len(heap) :
          /\ heap[w].status = "completed"
          /\ heap[w].logs[Len(heap[w].logs) - 1].type = "info"

\* a worker with no stage operation pending
Idle(w) == trace[w] # <<>> /\ Last(trace[w]).ev # "invoke"

\* C14: whatever the stage operations do, the promise of runBackgroundWorkflow
\* is never rejected; a worker with no operation pending has returned and left
\* a terminal status, and a worker that returned left a terminal status; and
\* every Start response is a success that names a job.
C14_NothingEscapes ==
    /\ \A w \in 1..Len(exec) :
          /\ exec[w].pc # "threw"
          /\ Idle(w) => exec[w].pc = "returned"
          /\ exec[w].pc = "returned" => heap[w].status \in Terminal
    /\ startRes # <<>> =>
          /\ startRes[1].success
          /\ \E r \in 1..Len(heap) : heap[r].id = startRes[1].jobId

\* one job whose discovery and publish stages both rejected, and another job
\* whose synthesis operation rejected
C14_Witness ==
    \E w, v \in 1..Len(trace) :
        /\ Len(trace[w]) = 8
        /\ trace[w][2].ev = "reject" /\ trace[w][8].ev = "reject"
        /\ exec[w].pc = "returned"
        /\ Len(trace[v]) = 4 /\ trace[v][4].ev = "reject"
        /\ exec[v].pc = "returned"

\* C16: a poll changes neither the store nor any record; a Start changes no
\* record that existed; and a step that changes a record is a step of that
\* record's own worker, which was still executing, and it changes no other
\* record and moves no other worker.
C16_OnlyOwnWorker ==
    [][ /\ Len(heap') >= Len(heap)
        /\ pollRes' # pollRes => jobs' = jobs /\ heap' = heap
        /\ Len(heap') > Len(heap) =>
              \A r \in 1..Len(heap) : heap'[r] = heap[r]
        /\ \A r \in 1..Len(heap) :
              heap'[r] # heap[r] =>
                /\ exec[r].pc # "returned"
                /\ exec'[r] # exec[r] \/ trace'[r] # trace[r]
                /\ \A q \in (1..Len(heap)) \ {r} :
                      /\ heap'[q] = heap[q]
                      /\ exec'[q] = exec[q]
                      /\ trace'[q] = trace[q]
      ]_vars

\* two concurrent jobs: the first has failed, the second went on and is still
\* running, and a poll has been answered
C16_Witness ==
    /\ Len(heap) = 2
    /\ heap[1].status = "failed"
    /\ heap[2].status = "running" /\ heap[2].currentStep = 3
    /\ PollFound(pollRes)

\* C18: when the discovery or the publish stage fails with message m, the logs
\* get a `warning` entry whose message contains m, and the entry right after it
\* is a `success` entry of the same stage.
C18_WarningCarriesMessage ==
    [][ \A w \in 1..Len(heap) : \A m \in ErrMsgs :
          LET old  == Len(heap[w].logs)
              logs == heap'[w].logs
              Holds(k) ==
                  \E i \in (old + 1)..(Len(logs) - 1) :
                      /\ logs[i].type = "warning" /\ logs[i].step = k
                      /\ Contains(logs[i].message, m)
                      /\ logs[i + 1].type = "success" /\ logs[i + 1].step = k
          IN  /\ DiscoveryRejected(w, m) => Holds(1)
              /\ PublishRejected(w, m) => Holds(4)
      ]_vars

\* C19: when the publish stage throws before its uploads are awaited, that is
\* the last thing the stage does: the job is `completed` with progress 100 and
\* no error, no `error` entry is logged, and the logs end with a step-4
\* `warning` entry carrying the thrown message and the completion entry.
C19_PublishFailureTolerated ==
    \A w \in 1..Len(trace) : \A i \in 1..Len(trace[w]) :
        LET e    == trace[w][i]
            job  == heap[w]
            logs == heap[w].logs
        IN  (e.ev = "reject" /\ e.stage = 4) =>
              /\ i = Len(trace[w])
              /\ exec[w].pc = "returned"
              /\ job.status = "completed"
              /\ job.progress = 100
              /\ job.error = Null
              /\ \A k \in 1..Len(logs) : logs[k].type # "error"
              /\ logs[Len(logs) - 1].type = "warning"
              /\ logs[Len(logs) - 1].step = 4
              /\ IsSuffix(e.message, logs[Len(logs) - 1].message)
              /\ Last(logs).message = <<"Workflow Completed!">>

\* a job whose publish stage threw with a non-empty message
C19_Witness ==
    \E w \in 1..Len(trace) :
        /\ trace[w] # <<>>
        /\ Last(trace[w]) = Reject(4, <<"ETIMEDOUT">>)
        /\ heap[w].status = "completed"

\* MaxJobs Starts or more have followed the Start of job w
Evicted(w) == Len(heap) >= w + MaxJobs

\* C17: once MaxJobs later Starts have evicted a job, every Get status for its
\* id is answered 404, for good; and if its record is `running` then, its stage
\* operations settling, the record reaches a terminal status, still answered
\* 404.
C17_EvictedKeepsRunning ==
    /\ [](\A w \in 1..Len(heap) :
            Evicted(w) => GetStatus(jobs, heap, heap[w].id).status = 404)
    /\ \A w \in 1..StoreResolving :
          (w \in 1..Len(heap) /\ Evicted(w) /\ heap[w].status = "running")
              ~> ( /\ w \in 1..Len(heap)
                   /\ heap[w].status \in Terminal
                   /\ GetStatus(jobs, heap, heap[w].id).status = 404 )

\* the first job has been evicted while it awaits its first stage operation
C17_Witness ==
    /\ Len(heap) > MaxJobs
    /\ Evicted(1)
    /\ heap[1].status = "running"
    /\ exec[1].pc = "discovery"
    /\ GetStatus(jobs, heap, heap[1].id).status = 404

\* the bounded duration of a pipeline execution; the source gives it no value,
\* so it is taken as long as the clock of SpecClock allows
PipelineTimeout == MaxTime

\* C13: a job that was created PipelineTimeout milliseconds ago or earlier is
\* not `running` any more.
C13_TimeoutFails ==
    \A r \in 1..Len(heap) :
        now - heap[r].createdAt >= PipelineTimeout => heap[r].status # "running"

\* C15: no two Starts generate the same id: the job objects created so far
\* have pairwise different ids, so each id has one record and one worker.
C15_IdsUnique ==
    \A r, q \in 1..Len(heap) : r # q => heap[r].id # heap[q].id

\* C11: a publish stage that selected n images starts and awaits n upload
\* tasks; when they have settled with f of them rejected, the job is
\* `completed` without error, and its logs end with the step-4 `success` entry
\* "Uploaded n - f draft listing(s) to Etsy" and the completion entry.
C11_PartialUploadsCounted ==
    \A i \in 1..Len(pub) :
        LET w    == pub[i].w
            n    == Len(pub[i].images)
            f    == pub[i].rejected
            logs == heap[w].logs
        IN  IF ~pub[i].settled
            THEN /\ exec[w].pc = "uploading"
                 /\ exec[w].uploads = n
                 /\ heap[w].status = "running"
            ELSE /\ f \in 0..n
                 /\ exec[w].pc = "returned"
                 /\ heap[w].status = "completed"
                 /\ heap[w].error = Null
                 /\ logs[Len(logs) - 1].type = "success"
                 /\ logs[Len(logs) - 1].step = 4
                 /\ logs[Len(logs) - 1].message =
                        <<"Uploaded ", ToString(n - f), " draft listing(s) to Etsy">>
                 /\ Last(logs).message = <<"Workflow Completed!">>
                 /\ \A k \in 1..Len(logs) : logs[k].type \notin {"warning", "error"}

\* a stage that uploaded MaxImages images, one of which was rejected
C11_Witness ==
    \E i \in 1..Len(pub) :
        /\ pub[i].settled
        /\ Len(pub[i].images) = MaxImages
        /\ pub[i].rejected = 1
        /\ heap[pub[i].w].status = "completed"

Observable ==
    { heap[r] : r \in 1..Len(heap) } \cup
    (IF PollFound(pollRes) THEN { PollJob(pollRes) } ELSE {})

\* C21: in every record, and in every record returned by a poll, `progress`
\* is an integer from 0 to 100, and it is 100 exactly when `status` is
\* `completed`.
C21_ProgressMatchesStatus ==
    \A job \in Observable :
        /\ job.progress \in 0..100
        /\ job.progress = 100 <=> job.status = "completed"

\* a poll returned a completed job, and another job has failed
C21_Witness ==
    /\ PollFound(pollRes)
    /\ PollJob(pollRes).status = "completed"
    /\ PollJob(pollRes).progress = 100
    /\ \E r \in 1..Len(heap) : heap[r].status = "failed" /\ heap[r].progress = 0

\* C22: in every record, and in every record returned by a poll, `error` is
\* a string exactly when `status` is `failed`, and null otherwise.
C22_ErrorMatchesStatus ==
    \A job \in Observable :
        /\ Len(job.error) <= 1
        /\ job.error # Null <=> job.status = "failed"

\* a poll returned a failed job with its error, and another job is completed
C22_Witness ==
    /\ PollFound(pollRes)
    /\ PollJob(pollRes).status = "failed"
    /\ PollJob(pollRes).error # Null
    /\ \E r \in 1..Len(heap) : heap[r].status = "completed" /\ heap[r].error = Null

\* C23: `updatedAt` of a job is never older than the timestamp of its newest
\* log entry.
C23_UpdatedAtRefreshed ==
    \A r \in 1..Len(heap) :
        heap[r].logs # <<>> =>
            heap[r].updatedAt >= getTime(Last(heap[r].logs).timestamp)

\* C26: every log entry has exactly the fields timestamp, message, type and
\* step, its type is one of the four, its step is a stage number, and the step
\* of the newest entry is the job's current stage.
C26_LogEntryShape ==
    \A r \in 1..Len(heap) :
        /\ \A k \in 1..Len(heap[r].logs) :
              LET entry == heap[r].logs[k]
              IN  /\ DOMAIN entry = {"timestamp", "message", "type", "step"}
                  /\ entry.type \in {"info", "success", "warning", "error"}
                  /\ entry.step \in 1..4
        /\ heap[r].logs # <<>> => Last(heap[r].logs).step = heap[r].currentStep

C30_EveryJobEnds ==
    \A w \in 1..MaxStarts :
        (w \in 1..Len(heap)) ~> (w \in 1..Len(heap) /\ heap[w].status \in Terminal)

\* two jobs are running, the first in its publish stage
C30_Witness ==
    /\ Len(heap) = 2
    /\ heap[1].status = "running" /\ exec[1].pc = "uploading"
    /\ heap[2].status = "running"

C27_OwnArtifactsUploaded ==
    \A i \in 1..Len(pub) :
        (pub[i].images # <<>> /\ pub[i].manifest # Null) =>
            pub[i].manifest[1].by = pub[i].w

\* C29: no call of analyzeAndGenerateIdeas or generateImages has written its
\* document after its wrapper returned.
C29_NoWriteAfterReturn ==
    collab.after = {}

\* the job the client started is over, or is no longer in the store
ClientJobGone ==
    \E w \in ClientWorkers : heap[w].status \in Terminal \/ Evicted(w)

\* C25: the client starts one job and keeps its id; it is in its loop only
\* while every poll so far found the job running; it ends on `completed`, on
\* `failed` and on a not-found poll, the last one with a report of its own;
\* and once the job is over or evicted the loop comes to its end.
C25_ClientStops ==
    /\ [][client.pc # "idle" =>
            client'.jobId = client.jobId /\ client'.pc # "idle"]_vars
    /\ [](client.pc = "polling" =>
            \/ pollRes = <<>>
            \/ PollFound(pollRes) /\ PollJob(pollRes).status = "running")
    /\ [](client.pc = "done" =>
            /\ pollRes # <<>> /\ <<pollRes[1].id>> = client.jobId
            /\ client.outcome = "error" <=> ~PollFound(pollRes)
            /\ client.outcome = "completed" <=>
                  (PollFound(pollRes) /\ PollJob(pollRes).status = "completed")
            /\ client.outcome = "failed" <=>
                  (PollFound(pollRes) /\ PollJob(pollRes).status = "failed"))
    /\ (client.pc = "polling" /\ ClientJobGone) ~> client.pc = "done"

\* the client's job failed after it was evicted, and the client, which found
\* it running before, ended on the not-found report
C25_Witness ==
    /\ client.pc = "done"
    /\ client.outcome = "error"
    /\ \E w \in ClientWorkers :
          /\ heap[w].status = "failed"
          /\ Evicted(w)
          /\ Len(heap[w].logs) > 0

\* C31: the worker dispatched by a Start finds the record of its job, so it
\* never takes its early return and its first event is the call of the
\* discovery operation; the job a Start created is in the store when the
\* Start is over.
C31_DispatchFindsJob ==
    /\ [](\A w \in 1..Len(exec) :
            /\ trace[w] # <<>>
            /\ trace[w][1] = Invoke(1)
            /\ heap[w].logs # <<>>)
    /\ [][Len(heap') = Len(heap) + 1 =>
            /\ MapGet(jobs', heap'[Len(heap')].id) = Len(heap')
            /\ heap'[Len(heap')].currentStep = 1]_vars

\* a Start has evicted the oldest job, and its own job is in the store, at
\* its first stage
C31_Witness ==
    /\ Len(heap) > MaxJobs
    /\ Len(jobs) = MaxJobs
    /\ MapGet(jobs, heap[1].id) = 0
    /\ MapGet(jobs, heap[Len(heap)].id) = Len(heap)
    /\ exec[Len(exec)].pc = "discovery"

\* the entry that announces the discovery stage
IsDiscoveryEntry(e) ==
    /\ e.type = "info"
    /\ e.step = 1
    /\ e.message = <<"Searching for latest Design Trends...">>

\* C32: every record a poll can observe, and every record a poll has
\* returned, has currentStep at least 1 and the discovery announcement as its
\* first log entry; a job whose worker is still at its first await has
\* currentStep 1 and that one entry only.
C32_NoInitialRecordObserved ==
    /\ \A job \in Observable :
          /\ job.currentStep >= 1
          /\ Len(job.logs) >= 1
          /\ IsDiscoveryEntry(job.logs[1])
    /\ \A w \in 1..Len(heap) :
          At(w, "discovery") =>
              heap[w].currentStep = 1 /\ Len(heap[w].logs) = 1

\* a poll has returned a job whose worker is still at its first await
C32_Witness ==
    /\ PollFound(pollRes)
    /\ \E w \in 1..Len(heap) :
          /\ At(w, "discovery")
          /\ PollJob(pollRes) = heap[w]
          /\ heap[w].status = "running"

\* positions of the `success` entries of step k in a log
SuccessAt(logs, k) ==
    { i \in 1..Len(logs) : logs[i].type = "success" /\ logs[i].step = k }

\* C33: the log of a completed job has a success entry for step 1, a later
\* one for step 2, a later one for step 3, then an entry of step 4, and ends
\* with the 'Workflow Completed!' success entry; it has no error entry.
C33_CompletedLog ==
    \A job \in Observable :
        job.status = "completed" =>
            /\ \E i \in SuccessAt(job.logs, 1), j \in SuccessAt(job.logs, 2),
                  k \in SuccessAt(job.logs, 3), l \in 1..(Len(job.logs) - 1) :
                    /\ i < j /\ j < k /\ k < l
                    /\ job.logs[l].step = 4
            /\ \A i \in 1..Len(job.logs) : job.logs[i].type # "error"
            /\ Last(job.logs).type = "success"
            /\ Last(job.logs).step = 4
            /\ Last(job.logs).message = <<"Workflow Completed!">>

\* a job completed after its discovery operation failed and its publish
\* stage ran
C33_Witness ==
    \E w \in 1..Len(heap) :
        /\ heap[w].status = "completed"
        /\ \E i \in 1..Len(heap[w].logs) : heap[w].logs[i].type = "warning"
        /\ Last(trace[w]) = Resolve(4)

\* the last n elements of a sequence, all of it if it is shorter
LastN(s, n) == IF Len(s) <= n THEN s ELSE SubSeq(s, Len(s) - n + 1, Len(s))

\* C39: the log buffer holds at most LOG_BUFFER_SIZE entries, and they are
\* the entries of the most recent console calls, in call order.
C39_BufferKeepsMostRecent ==
    /\ Len(logBuffer) <= LOG_BUFFER_SIZE
    /\ logBuffer = LastN(logCalls, LOG_BUFFER_SIZE)

\* more calls than the buffer holds were made, the first of them a
\* console.error call whose entry is gone
C39_Witness ==
    /\ Len(logCalls) > LOG_BUFFER_SIZE + 1
    /\ Len(logBuffer) = LOG_BUFFER_SIZE
    /\ logCalls[1][4] = "ERROR"
    /\ logBuffer[1] = logCalls[Len(logCalls) - LOG_BUFFER_SIZE + 1]
    /\ logBuffer[1] # logCalls[1]

\* the callback requests that went on to the token exchange
Accepted ==
    { i \in 1..Len(oauth.callbacks) : oauth.callbacks[i].outcome # "rejected" }

\* C37: no callback was accepted with a state stored more than ten minutes
\* before.
C37_ExpiredStateRejected ==
    \A i \in Accepted : ~oauth.callbacks[i].expired

\* C38: no two accepted callbacks used the same stored state: each verifier
\* that was issued went to at most one token exchange.
C38_StateAcceptedOnce ==
    \A i, j \in Accepted :
        oauth.callbacks[i].codeVerifier = oauth.callbacks[j].codeVerifier => i = j

\* a callback was accepted, its exchange failed, and a second callback with
\* the same state was rejected
C38_Witness ==
    \E i, j \in 1..Len(oauth.callbacks) :
        /\ i < j
        /\ oauth.callbacks[i].outcome = "failed"
        /\ oauth.callbacks[j].outcome = "rejected"
        /\ oauth.callbacks[j].state = oauth.callbacks[i].state

\* C34: a call makes at most two attempts; it made a second one only after
\* its first failed by the request timer or by a connection error naming
\* ECONNRESET or ETIMEDOUT, never after an error status of the API; and any
\* other failure was thrown as it came.
C34_RetryOnlyOnTimeout ==
    \A c \in 1..Len(search) :
        /\ search[c].attempt <= 2
        /\ Len(search[c].failed) <= 2
        /\ (search[c].attempt = 2 \/ search[c].pc = "waiting") =>
              /\ search[c].failed[1].cause \in {"timer", "network"}
              /\ isRetryable(search[c].failed[1])
        /\ search[c].pc = "rejected" /\ search[c].failed # <<>> =>
              search[c].thrown = Some(Last(search[c].failed).message)

\* C35: a call of generateSingleImage is never beyond its third attempt; it
\* has returned exactly when an attempt gave an image or the third attempt
\* failed, with the image file in the first case and the placeholder in the
\* second; and what it returned is the manifest entry of its idea.
C35_ThreeAttemptsThenPlaceholder ==
    \A c \in 1..Len(gen) :
        /\ gen[c].attempt \in 1..MAX_RETRIES
        /\ gen[c].pc \in {"attempt", "waiting", "returned"}
        /\ gen[c].pc = "waiting" => gen[c].attempt < MAX_RETRIES
        /\ gen[c].pc = "returned" <=> gen[c].file # "none"
        /\ gen[c].file = "placeholder" => gen[c].attempt = MAX_RETRIES
        /\ gen[c].pc = "returned" <=> gen[c].returned # Null
        /\ gen[c].returned # Null =>
              /\ gen[c].returned[1].id = c
              /\ gen[c].returned[1].title = Idea(c - 1).title
              /\ gen[c].returned[1].imagePath =
                    <<"/generated_images/", "design_", "0", ToString(c), ".png">>

\* one call returned with a placeholder after three failed attempts, another
\* with the image of its second attempt
C35_Witness ==
    \E c, d \in 1..Len(gen) :
        /\ gen[c].file = "placeholder" /\ gen[c].attempt = MAX_RETRIES
        /\ gen[d].file = "image" /\ gen[d].attempt = 2 /\ gen[d].wait = 5000

\* C36: a call whose listing request succeeded resolves or is still
\* uploading the image, whatever the upload does; and a call has rejected
\* only if the shop id is not set or its listing request failed.
C36_RejectsOnlyWithoutListing ==
    \A c \in 1..Len(listing) :
        /\ listing[c].create = "ok" => listing[c].pc \in {"uploading", "resolved"}
        /\ listing[c].upload = "failed" => listing[c].pc = "resolved"
        /\ listing[c].pc = "rejected" =>
              ~env.ETSY_SHOP_ID \/ listing[c].create = "failed"

====
